---------------------------- MODULE Spec2Model ----------------------------
(***************************************************************************)
(* Process-management syscalls of the kernel (os/src/syscall/process.rs):  *)
(* exit, yield, fork, exec, waitpid, spawn, set_priority, mmap and munmap, *)
(* over the task control blocks, their address spaces, the frame           *)
(* allocator, the ready queue and the current-task slot of the single      *)
(* processor.  One syscall is one step: the kernel runs a syscall to its   *)
(* end before any other task runs.  The exclusive-access guards a syscall  *)
(* takes and drops on its way are kept as the log of that step.            *)
(*                                                                         *)
(* The task control block's methods, the scheduler, the pid allocator, the *)
(* loader and the trap handler are written after the design document.  The *)
(* scheduler's choice among the ready tasks is left open: any ready task   *)
(* may run next.                                                           *)
(***************************************************************************)
EXTENDS Integers, Sequences, FiniteSets, TLC

\* ------------------------------------------------------------------ bounds
\* TCBs that may be allocated at the same time (the root included).
MaxTasks == 3

\* Physical frames the allocator starts with.
NumFrames == 2
\* The highest virtual page number.  usize is narrowed to the addresses of the
\* pages 0 .. MaxVpn: a sum of two addresses wraps around behind the last
\* byte of page MaxVpn, as it does behind 2^64 - 1 in the kernel.
MaxVpn == 3

Slots == 0 .. (MaxTasks - 1)
\* Exit codes a task may pass to exit.
ExitCodes == {0, 1}
\* Priorities a task may pass to set_priority.
PrioArgs == {-1, 1, 2}
\* User addresses a task may pass as exit_code_ptr.
Ptrs == {0}
\* pid arguments of waitpid: -2 (no pid at all), -1 (any child), and pids.
PidArgs == -2 .. (MaxTasks - 1)
\* Bytes of a page.
PAGE_SIZE == 4096
\* The number of values of the (narrowed) usize.
USIZE == (MaxVpn + 1) * PAGE_SIZE
VPNs == 0 .. MaxVpn
Frames == 1 .. NumFrames
\* start arguments of mmap and munmap: the first bytes of the first two pages
\* and of the last page, and an address inside a page.
StartArgs == {0, 1, PAGE_SIZE, MaxVpn * PAGE_SIZE}
\* len arguments: nothing, a byte, a page, a page and a byte.
LenArgs == {0, 1, PAGE_SIZE, PAGE_SIZE + 1}
\* port arguments: no bit, R, W|X, and R with a bit above X.
PortArgs == {0, 1, 6, 9}

\* ------------------------------------------ the kernel around process.rs
\* The root task: the first task created at boot, owner of orphans.
INITPROC == 0
\* The pid of the root task (the first pid the allocator hands out).
IDLE_PID == 0
\* Priority given to a task control block at creation.
DefaultPriority == 16
\* Binaries the loader knows.
Apps == {"initproc", "user_shell"}
\* Paths a task may pass to exec and spawn.
Paths == Apps \cup {"nosuch"}
\* get_app_data_by_name: the binary's data, or nothing.
get_app_data_by_name(path) == IF path \in Apps THEN {path} ELSE {}
\* User memory of a freshly loaded address space.
ZeroMem == [a \in Ptrs |-> 0]

VARIABLES
  task_status,   \* [Slots -> {"None","Ready","Running","Zombie"}]; "None": no TCB
  pid,           \* [Slots -> Nat]      TaskControlBlock.pid
  parent,        \* [Slots -> SUBSET Slots]  Option<Weak<TCB>>: {} or {p}
  children,      \* [Slots -> Seq(Slots)]    Vec<Arc<TCB>>
  exit_code,     \* [Slots -> Int]
  priority,      \* [Slots -> Int]
  trap_cx_x10,   \* [Slots -> Int]  saved a0 of the task's trap context
  memory_set,    \* [Slots -> [image: STRING, mem: [Ptrs -> Int]]]
  ready_queue,   \* Seq(Slots): the scheduler's ready queue
  current,       \* SUBSET Slots: the processor's current-task slot, {} or {t}
  pid_current,   \* pid allocator: next never-used pid
  pid_recycled,  \* pid allocator: stack of reclaimed pids
  page_table,    \* [Slots -> [VPNs -> PTE]]: the pages mapped by mmap
  FRAME_ALLOCATOR, \* the set of free physical frames
  halted,        \* "no", or why the kernel panicked
  last,          \* history: the last syscall, its arguments and its result
  guards         \* history: the guard events of the last syscall, in order

tcb_vars == <<task_status, pid, parent, children, exit_code, priority,
              trap_cx_x10, memory_set>>
sched_vars == <<ready_queue, current>>
pid_vars == <<pid_current, pid_recycled>>
mem_vars == <<page_table, FRAME_ALLOCATOR>>
vars == <<tcb_vars, sched_vars, pid_vars, mem_vars, halted, last, guards>>

\* ---------------------------------------------------------------- helpers
Min(S) == CHOOSE x \in S : \A y \in S : x <= y
Remove(s, idx) == SubSeq(s, 1, idx - 1) \o SubSeq(s, idx + 1, Len(s))
Count(s, x) == Cardinality({i \in 1 .. Len(s) : s[i] = x})
Range(s) == {s[i] : i \in 1 .. Len(s)}

Live == {t \in Slots : task_status[t] # "None"}
FreeSlots == Slots \ Live
NoCall == [op |-> "boot", task |-> {}, arg |-> 0, path |-> "", ptr |-> 0,
           ret |-> 0, child |-> {}, len |-> 0, port |-> 0, vpns |-> << >>,
           before |-> << >>]
Call(op, t, arg, path, ptr, ret, child) ==
  [op |-> op, task |-> {t}, arg |-> arg, path |-> path, ptr |-> ptr,
   ret |-> ret, child |-> child, len |-> 0, port |-> 0, vpns |-> << >>,
   before |-> << >>]

\* Arc::strong_count: the owners of TCB t in a given configuration.
strong_count(t, ch, rq, cur) ==
  LET inCh(p) == Count(ch[p], t)
      sumCh[S \in SUBSET Slots] ==
        IF S = {} THEN 0
        ELSE LET p == CHOOSE q \in S : TRUE IN inCh(p) + sumCh[S \ {p}]
  IN sumCh[Slots] + Count(rq, t) + (IF t \in cur THEN 1 ELSE 0)
     + (IF t = INITPROC THEN 1 ELSE 0)

\* pid allocator (recycling): a reclaimed pid first, else the next unused one.
pid_alloc == IF Len(pid_recycled) > 0 THEN pid_recycled[Len(pid_recycled)]
             ELSE pid_current
\* (a changed pid_alloc_state: a reclaimed pid stays on the stack when it is
\* handed out)
pid_alloc_state_no_pop ==
  IF Len(pid_recycled) > 0 THEN <<pid_current, pid_recycled>>
  ELSE <<pid_current + 1, pid_recycled>>

pid_alloc_state ==
  IF Len(pid_recycled) > 0
  THEN <<pid_current, SubSeq(pid_recycled, 1, Len(pid_recycled) - 1)>>
  ELSE <<pid_current + 1, pid_recycled>>

\* A page table entry: the frame and the permission bits; NoPTE for a page
\* that is not mapped.
NoPTE == [ppn |-> 0, flags |-> 0]
NoPages == [v \in VPNs |-> NoPTE]
\* The pages an address space maps, and the frames behind them.
mapped(pt) == {v \in VPNs : pt[v] # NoPTE}
frames_of(pt) == {pt[v].ppn : v \in mapped(pt)}
\* The ways to back the pages vs with distinct frames out of free.
frame_alloc(vs, free) ==
  {f \in [vs -> free] : \A v, w \in vs : f[v] = f[w] => v = w}

\* Guard events: inner_exclusive_access() of task t's TCB and the drop of
\* the guard it returns; the hand-over of t to the ready queue; the switch
\* away from t.
acquire(t) == <<"acquire", t>>
release(t) == <<"release", t>>
to_ready_queue(t) == <<"add_task", t>>
switch(t) == <<"switch", t>>
\* A section on t's TCB that is entered and left inside a function of the
\* task module.
section(t) == <<acquire(t), release(t)>>
\* The guard events of one section per task of ts, one after the other.
sections(ts) == [i \in 1 .. 2 * Len(ts) |-> IF i % 2 = 1 THEN acquire(ts[(i + 1) \div 2])
                                        ELSE release(ts[i \div 2])]

getpid(t) == pid[t]
is_zombie(t) == task_status[t] = "Zombie"

Init ==
  /\ task_status = [t \in Slots |-> IF t = INITPROC THEN "Ready" ELSE "None"]
  /\ pid = [t \in Slots |-> IF t = INITPROC THEN IDLE_PID ELSE 0]
  /\ parent = [t \in Slots |-> {}]
  /\ children = [t \in Slots |-> << >>]
  /\ exit_code = [t \in Slots |-> 0]
  /\ priority = [t \in Slots |-> DefaultPriority]
  /\ trap_cx_x10 = [t \in Slots |-> 0]
  /\ memory_set = [t \in Slots |-> [image |-> IF t = INITPROC THEN "initproc" ELSE "",
                                    mem |-> ZeroMem]]
  /\ ready_queue = <<INITPROC>>
  /\ current = {}
  /\ pid_current = 1
  /\ pid_recycled = << >>
  /\ page_table = [t \in Slots |-> NoPages]
  /\ FRAME_ALLOCATOR = Frames
  /\ halted = "no"
  /\ last = NoCall
  /\ guards = << >>

\* The idle control flow takes a ready task and switches to it.  Which one
\* depends on the tasks' pass values, which are not kept here: any may be taken.
run_tasks ==
  /\ halted = "no"
  /\ current = {}
  /\ \E i \in 1 .. Len(ready_queue) :
       LET t == ready_queue[i] IN
       /\ ready_queue' = Remove(ready_queue, i)
       /\ current' = {t}
       /\ task_status' = [task_status EXCEPT ![t] = "Running"]
  /\ UNCHANGED <<pid, parent, children, exit_code, priority, trap_cx_x10,
                 memory_set, pid_vars, mem_vars, halted, last, guards>>

\* The values of a slot that holds no TCB.
NoMemory == [image |-> "", mem |-> ZeroMem]

\* trap_handler: the syscall's result goes to a0 of the caller's trap context.
syscall_return(x10, t, r) == [x10 EXCEPT ![t] = r]

\* add_task: the scheduler appends the task to the ready queue.
add_task(rq, t) == Append(rq, t)

\* Everything a syscall that fails or only reads leaves alone.
OnlyReturns(t, r) ==
  /\ trap_cx_x10' = syscall_return(trap_cx_x10, t, r)
  /\ UNCHANGED <<task_status, pid, parent, children, exit_code, priority,
                 memory_set, sched_vars, pid_vars, mem_vars, halted>>

\* exit_current_and_run_next: the task leaves the processor as a zombie, its
\* children go to the root task, its data pages (the trap context's page
\* among them) are recycled and their frames go back to the allocator.
exit_current_and_run_next(t, code) ==
  IF getpid(t) = IDLE_PID
  THEN /\ halted' = "initproc_exit"
       /\ UNCHANGED <<tcb_vars, sched_vars, pid_vars, mem_vars>>
  ELSE /\ current' = {}
       /\ task_status' = [task_status EXCEPT ![t] = "Zombie"]
       /\ exit_code' = [exit_code EXCEPT ![t] = code]
       /\ parent' = [c \in Slots |->
                       IF c \in Range(children[t]) THEN {INITPROC} ELSE parent[c]]
       /\ children' = [children EXCEPT ![INITPROC] = @ \o children[t],
                                       ![t] = << >>]
       /\ memory_set' = [memory_set EXCEPT ![t] = NoMemory]
       /\ trap_cx_x10' = [trap_cx_x10 EXCEPT ![t] = 0]
       /\ page_table' = [page_table EXCEPT ![t] = NoPages]
       /\ FRAME_ALLOCATOR' = FRAME_ALLOCATOR \cup frames_of(page_table[t])
       /\ UNCHANGED <<pid, priority, ready_queue, pid_vars, halted>>

\* (a changed sys_exit_code: every task exits with code 0)
sys_exit_code_zero(code) == 0

\* The exit code sys_exit hands on.
sys_exit_code(code) == code

\* The guards of exit_current_and_run_next: the task's own section is left
\* before the switch.
exit_guards(t) == section(t) \o <<switch(t)>>

sys_exit(code) ==
  /\ halted = "no"
  /\ \E t \in current :
       /\ exit_current_and_run_next(t, sys_exit_code(code))
       /\ last' = Call("exit", t, code, "", 0, 0, Range(children[t]))
       /\ guards' = exit_guards(t)

\* suspend_current_and_run_next: the task goes back to the ready queue.
suspend_current_and_run_next(t) ==
  /\ task_status' = [task_status EXCEPT ![t] = "Ready"]
  /\ ready_queue' = add_task(ready_queue, t)
  /\ current' = {}

\* The guards of suspend_current_and_run_next: the task's own section is
\* left before the task goes to the ready queue and the processor is switched.
suspend_guards(t) == section(t) \o <<to_ready_queue(t), switch(t)>>

sys_yield ==
  /\ halted = "no"
  /\ \E t \in current :
       /\ suspend_current_and_run_next(t)
       /\ trap_cx_x10' = syscall_return(trap_cx_x10, t, 0)
       /\ last' = Call("yield", t, 0, "", 0, 0, {})
       /\ guards' = suspend_guards(t)
  /\ UNCHANGED <<pid, parent, children, exit_code, priority, memory_set,
                 pid_vars, mem_vars, halted>>

\* A slot for a new TCB (Arc::new): any free one; the lowest is taken.
new_slot == Min(FreeSlots)

\* TaskControlBlock::fork: a copy of the parent with a fresh pid, linked under
\* the parent, its pages copied into new frames.  Leaves the child's trap
\* context and the ready queue to sys_fork.
\* The child's priority is either inherited or the creation default.
tcb_fork(t, c, prio) ==
  /\ task_status' = [task_status EXCEPT ![c] = "Ready"]
  /\ pid' = [pid EXCEPT ![c] = pid_alloc]
  /\ pid_current' = pid_alloc_state[1]
  /\ pid_recycled' = pid_alloc_state[2]
  /\ parent' = [parent EXCEPT ![c] = {t}]
  /\ children' = [children EXCEPT ![t] = Append(@, c), ![c] = << >>]
  /\ exit_code' = [exit_code EXCEPT ![c] = 0]
  /\ priority' = [priority EXCEPT ![c] = prio]
  /\ memory_set' = [memory_set EXCEPT ![c] = memory_set[t]]
  /\ \E f \in frame_alloc(mapped(page_table[t]), FRAME_ALLOCATOR) :
       /\ page_table' =
            [page_table EXCEPT
               ![c] = [v \in VPNs |->
                        IF v \in mapped(page_table[t])
                        THEN [ppn |-> f[v], flags |-> page_table[t][v].flags]
                        ELSE NoPTE]]
       /\ FRAME_ALLOCATOR' =
            FRAME_ALLOCATOR \ {f[v] : v \in mapped(page_table[t])}

\* (a changed fork_child_x10: the child keeps the a0 copied from the parent)
fork_child_x10_copied(copied) == copied

\* trap_cx.x[10] = 0 in the child, whose trap context is a copy of the parent's.
fork_child_x10(copied) == 0

\* (a changed fork_add_task: the child is queued twice)
fork_add_task_twice(rq, c) == add_task(add_task(rq, c), c)

\* add_task(new_task) of sys_fork.
fork_add_task(rq, c) == add_task(rq, c)

\* sys_fork's result in the parent.
fork_ret(new_pid) == new_pid

\* (a changed fork_guards: the guard on the child lives until after add_task)
fork_guards_kept(t, c) ==
  section(t) \o <<acquire(c), to_ready_queue(c), release(c)>>

\* The guards of sys_fork: the parent's section inside fork(), the
\* temporary guard on the child that get_trap_cx() is called on, add_task.
fork_guards(t, c) == section(t) \o <<acquire(c), release(c), to_ready_queue(c)>>

\* fork() hands back a task, never an error: without the frames for the copy
\* the kernel panics.
sys_fork ==
  /\ halted = "no"
  /\ FreeSlots # {}
  /\ \E t \in current :
       IF Cardinality(mapped(page_table[t])) > Cardinality(FRAME_ALLOCATOR)
       THEN /\ halted' = "frame_alloc"
            /\ last' = Call("fork", t, 0, "", 0, 0, {})
            /\ guards' = <<acquire(t)>>
            /\ UNCHANGED <<tcb_vars, sched_vars, pid_vars, mem_vars>>
       ELSE
       \E prio \in {priority[t], DefaultPriority} :
       LET new_task == new_slot
           new_pid == pid_alloc
       IN /\ tcb_fork(t, new_task, prio)
          /\ trap_cx_x10' =
               syscall_return([trap_cx_x10 EXCEPT
                                 ![new_task] = fork_child_x10(trap_cx_x10[t])],
                              t, fork_ret(new_pid))
          /\ ready_queue' = fork_add_task(ready_queue, new_task)
          /\ last' = Call("fork", t, 0, "", 0, fork_ret(new_pid), {new_task})
          /\ guards' = fork_guards(t, new_task)
          /\ UNCHANGED <<current, halted>>

\* TaskControlBlock::exec: a new address space and trap context for the same
\* TCB; pid, parent and children stay.
tcb_exec(t, data) ==
  /\ memory_set' = [memory_set EXCEPT ![t] = [image |-> data, mem |-> ZeroMem]]
  /\ page_table' = [page_table EXCEPT ![t] = NoPages]
  /\ FRAME_ALLOCATOR' = FRAME_ALLOCATOR \cup frames_of(page_table[t])
  /\ UNCHANGED <<task_status, pid, parent, children, exit_code, priority>>

\* (a changed exec_ret: 0 in both cases)
exec_ret_zero(found) == 0

\* sys_exec's result: 0 with the binary found, -1 without.
exec_ret(found) == IF found THEN 0 ELSE -1

\* The guards of current_user_token(): a section on the caller.
token_guards(t) == section(t)

\* The guards of sys_exec: the token, then exec()'s section on the caller.
exec_guards(t, found) == token_guards(t) \o (IF found THEN section(t) ELSE << >>)

sys_exec(path) ==
  /\ halted = "no"
  /\ \E t \in current :
       LET found == get_app_data_by_name(path) IN
       /\ IF found # {}
          THEN /\ \E data \in found : tcb_exec(t, data)
               /\ trap_cx_x10' = syscall_return(trap_cx_x10, t, exec_ret(TRUE))
               /\ UNCHANGED <<sched_vars, pid_vars, halted>>
          ELSE OnlyReturns(t, exec_ret(FALSE))
       /\ last' = Call("exec", t, 0, path, 0, exec_ret(found # {}), {})
       /\ guards' = exec_guards(t, found # {})

\* (a changed pid_matches: -1 is no wildcard)
pid_matches_exact(p, c) == p >= 0 /\ p = getpid(c)

\* pid == -1 || pid as usize == p.getpid(): a negative pid cast to usize is at
\* least 2^63, which is no task's pid.
pid_matches(p, c) == p = -1 \/ (p >= 0 /\ p = getpid(c))

\* (a changed any_child_matches: having any child at all is enough)
any_child_exists(chs, p) == Len(chs) > 0

\* inner.children.iter().any(..): some child matches pid.
any_child_matches(chs, p) == \E i \in 1 .. Len(chs) : pid_matches(p, chs[i])

\* (a changed find_zombie: the first zombie child, whatever its pid)
find_zombie_any_pid(chs, p) ==
  LET hits == {i \in 1 .. Len(chs) : is_zombie(chs[i])}
  IN IF hits = {} THEN 0 ELSE Min(hits)

\* (a changed find_zombie: the last matching zombie child, not the first)
find_zombie_last(chs, p) ==
  LET hits == {i \in 1 .. Len(chs) : is_zombie(chs[i]) /\ pid_matches(p, chs[i])}
  IN IF hits = {} THEN 0 ELSE CHOOSE i \in hits : \A j \in hits : j <= i

\* inner.children.iter().enumerate().find(..): the index (from 1) of the first
\* zombie child that matches pid; 0 for none.
find_zombie(chs, p) ==
  LET hits == {i \in 1 .. Len(chs) : is_zombie(chs[i]) /\ pid_matches(p, chs[i])}
  IN IF hits = {} THEN 0 ELSE Min(hits)

\* (a changed remove_child: the first child is removed, whichever was found)
remove_child_first(chs, idx) == Remove(chs, 1)

\* inner.children.remove(idx)
remove_child(chs, idx) == Remove(chs, idx)

\* *translated_refmut(token, exit_code_ptr) = exit_code
write_exit_code(mem, ptr, code) == [mem EXCEPT ![ptr] = code]

\* The results of sys_waitpid.
waitpid_no_child == -1
waitpid_still_running == -2
waitpid_found(found_pid) == found_pid

\* The guards of the zombie scan: find() takes and drops the guard of every
\* child it looks at, up to the first hit (idx), or of all for no hit (0).
waitpid_scan_guards(chs, idx) ==
  sections(SubSeq(chs, 1, IF idx = 0 THEN Len(chs) ELSE idx))

\* The guards of the exit-code read: a temporary guard on the removed child.
waitpid_read_guards(child) == section(child)

\* The guards of sys_waitpid: the caller's guard (inner) is held from the
\* start to the return; the scan and the read happen under it.
waitpid_guards(t, chs, matching, idx) ==
  IF ~matching THEN section(t)
  ELSE <<acquire(t)>> \o waitpid_scan_guards(chs, idx)
       \o (IF idx = 0 THEN << >> ELSE waitpid_read_guards(chs[idx]))
       \o <<release(t)>>

sys_waitpid(p, exit_code_ptr) ==
  /\ halted = "no"
  /\ \E t \in current :
       LET chs == children[t]
           idx == find_zombie(chs, p)
       IN
       IF ~any_child_matches(chs, p)
       THEN /\ OnlyReturns(t, waitpid_no_child)
            /\ last' = Call("waitpid", t, p, "", exit_code_ptr, waitpid_no_child, {})
            /\ guards' = waitpid_guards(t, chs, FALSE, 0)
       ELSE IF idx = 0
       THEN /\ OnlyReturns(t, waitpid_still_running)
            /\ last' = Call("waitpid", t, p, "", exit_code_ptr,
                            waitpid_still_running, {})
            /\ guards' = waitpid_guards(t, chs, TRUE, 0)
       ELSE
         LET child == chs[idx]
             ch1 == [children EXCEPT ![t] = remove_child(chs, idx)]
             found_pid == getpid(child)
         IN
         IF strong_count(child, ch1, ready_queue, current) + 1 # 1
         THEN \* assert_eq!(Arc::strong_count(&child), 1) panics
              /\ children' = ch1
              /\ halted' = "assert_strong_count"
              /\ last' = Call("waitpid", t, p, "", exit_code_ptr, 0, {child})
              /\ guards' = <<acquire(t)>> \o waitpid_scan_guards(chs, idx)
              /\ UNCHANGED <<task_status, pid, parent, exit_code, priority,
                             trap_cx_x10, memory_set, sched_vars, pid_vars,
                             mem_vars>>
         ELSE \* the child is dropped at the end of the call: its pid is reclaimed
              /\ children' = ch1
              /\ memory_set' =
                   [memory_set EXCEPT
                      ![t].mem = write_exit_code(@, exit_code_ptr, exit_code[child]),
                      ![child] = NoMemory]
              /\ task_status' = [task_status EXCEPT ![child] = "None"]
              /\ pid' = [pid EXCEPT ![child] = 0]
              /\ parent' = [parent EXCEPT ![child] = {}]
              /\ exit_code' = [exit_code EXCEPT ![child] = 0]
              /\ priority' = [priority EXCEPT ![child] = DefaultPriority]
              /\ trap_cx_x10' =
                   syscall_return([trap_cx_x10 EXCEPT ![child] = 0], t,
                                  waitpid_found(found_pid))
              /\ pid_recycled' = Append(pid_recycled, found_pid)
              /\ last' = Call("waitpid", t, p, "", exit_code_ptr,
                              waitpid_found(found_pid), {child})
              /\ guards' = waitpid_guards(t, chs, TRUE, idx)
              /\ UNCHANGED <<sched_vars, pid_current, mem_vars, halted>>

\* TaskControlBlock::new: a TCB loaded from a binary, with a fresh pid, no
\* parent and no children.
tcb_new(c, data) ==
  /\ task_status' = [task_status EXCEPT ![c] = "Ready"]
  /\ pid' = [pid EXCEPT ![c] = pid_alloc]
  /\ pid_current' = pid_alloc_state[1]
  /\ pid_recycled' = pid_alloc_state[2]
  /\ exit_code' = [exit_code EXCEPT ![c] = 0]
  /\ priority' = [priority EXCEPT ![c] = DefaultPriority]
  /\ memory_set' = [memory_set EXCEPT ![c] = [image |-> data, mem |-> ZeroMem]]

\* child_inner.parent = Some(Arc::downgrade(&parent_task))
spawn_parent(t) == {t}

\* (a changed spawn_push: the child is not linked under the parent)
spawn_push_nothing(chs, c) == chs

\* parent_inner.children.push(child_task.clone())
spawn_push(chs, c) == Append(chs, c)

\* (a changed spawn_add_task: the child is queued twice)
spawn_add_task_twice(rq, c) == add_task(add_task(rq, c), c)

\* add_task(child_task) of sys_spawn.
spawn_add_task(rq, c) == add_task(rq, c)

\* The results of sys_spawn.
spawn_ret(child_pid) == child_pid
spawn_invalid_path == -1

\* (a changed spawn_guards: parent_inner is dropped before child_inner)
spawn_guards_parent_first(t, c, found) ==
  token_guards(t)
  \o (IF found
      THEN <<acquire(t), acquire(c), release(t), release(c), to_ready_queue(c)>>
      ELSE << >>)

\* The guards of sys_spawn: the token; then, for a binary that is found, the
\* parent's guard (parent_inner), the child's (child_inner) under it, the
\* two drops, and add_task.
spawn_guards(t, c, found) ==
  token_guards(t)
  \o (IF found
      THEN <<acquire(t), acquire(c), release(c), release(t), to_ready_queue(c)>>
      ELSE << >>)

sys_spawn(path) ==
  /\ halted = "no"
  /\ \E t \in current :
       LET found == get_app_data_by_name(path) IN
       IF found # {}
       THEN /\ FreeSlots # {}
            /\ LET child_task == new_slot
                   child_pid == pid_alloc
               IN /\ \E data \in found : tcb_new(child_task, data)
                  /\ parent' = [parent EXCEPT ![child_task] = spawn_parent(t)]
                  /\ children' = [children EXCEPT
                                    ![t] = spawn_push(@, child_task),
                                    ![child_task] = << >>]
                  /\ ready_queue' = spawn_add_task(ready_queue, child_task)
                  /\ trap_cx_x10' =
                       syscall_return([trap_cx_x10 EXCEPT ![child_task] = 0], t,
                                      spawn_ret(child_pid))
                  /\ last' = Call("spawn", t, 0, path, 0, spawn_ret(child_pid),
                                  {child_task})
                  /\ guards' = spawn_guards(t, child_task, TRUE)
                  /\ UNCHANGED <<current, mem_vars, halted>>
       ELSE /\ OnlyReturns(t, spawn_invalid_path)
            /\ last' = Call("spawn", t, 0, path, 0, spawn_invalid_path, {})
            /\ guards' = spawn_guards(t, t, FALSE)

\* (a changed prio_valid: only negative priorities are refused)
prio_valid_nonnegative(prio) == ~(prio < 0)

\* _prio < 2 is refused.
prio_valid(prio) == ~(prio < 2)

\* inner.priority = _prio as usize
set_priority_value(prio) == prio

\* The guards of sys_set_priority: the caller's, for a priority that is set.
set_priority_guards(t, valid) == IF valid THEN section(t) ELSE << >>

sys_set_priority(prio) ==
  /\ halted = "no"
  /\ \E t \in current :
       IF ~prio_valid(prio)
       THEN /\ OnlyReturns(t, -1)
            /\ last' = Call("set_priority", t, prio, "", 0, -1, {})
            /\ guards' = set_priority_guards(t, FALSE)
       ELSE /\ priority' = [priority EXCEPT ![t] = set_priority_value(prio)]
            /\ trap_cx_x10' = syscall_return(trap_cx_x10, t, prio)
            /\ last' = Call("set_priority", t, prio, "", 0, prio, {})
            /\ guards' = set_priority_guards(t, TRUE)
            /\ UNCHANGED <<task_status, pid, parent, children, exit_code,
                           memory_set, sched_vars, pid_vars, mem_vars, halted>>

\* The record of a call of mmap or munmap: vpns is the <<start_vpn, end_vpn>>
\* handed to the task module, << >> for a call that hands on nothing; before
\* is what the call found: the caller's mapped pages and the free frames.
MemCall(op, t, start, len, port, ret, vpns) ==
  [op |-> op, task |-> {t}, arg |-> start, path |-> "", ptr |-> 0,
   ret |-> ret, child |-> {}, len |-> len, port |-> port, vpns |-> vpns,
   before |-> <<mapped(page_table[t]), FRAME_ALLOCATOR>>]

\* VirtAddr::aligned, VirtAddr::floor, VirtAddr::ceil.
page_offset(va) == va % PAGE_SIZE
aligned(va) == page_offset(va) = 0
floor(va) == va \div PAGE_SIZE
ceil(va) == (va + PAGE_SIZE - 1) \div PAGE_SIZE

\* _start + _len in usize: the sum leaves usize when it reaches USIZE.  A
\* build with overflow checks panics there, a build without them wraps.
overflows(a, b) == a + b >= USIZE
wrapping_add(a, b) == (a + b) % USIZE

\* (a changed port_invalid: the bits above X are not looked at)
port_invalid_low_bits(port) == (port % 8) = 0

\* _port & !0x7 != 0 || _port & 0x7 == 0
port_invalid(port) == (port \div 8) # 0 \/ (port % 8) = 0

\* _len <= 0, of a usize.
len_invalid(len) == len <= 0

\* start_vpn and end_vpn as sys_mmap and sys_munmap compute them, from _start
\* and the value of _start + _len.
start_vpn_of(start) == floor(start)
end_vpn_of(end_vaddr) == ceil(end_vaddr)

\* The pages of [start_vpn, end_vpn).
vpn_range(start_vpn, end_vpn) == {v \in VPNs : start_vpn <= v /\ v < end_vpn}

\* task::mmap: -2 for a page of the range that is mapped already, -3 for too
\* few free frames, 0 for success.
mmap(pt, free, start_vpn, end_vpn) ==
  IF vpn_range(start_vpn, end_vpn) \cap mapped(pt) # {} THEN -2
  ELSE IF Cardinality(vpn_range(start_vpn, end_vpn)) > Cardinality(free) THEN -3
  ELSE 0

\* task::munmap: -3 for a page of the range that is not mapped, 0 for success.
munmap(pt, start_vpn, end_vpn) ==
  IF vpn_range(start_vpn, end_vpn) \ mapped(pt) # {} THEN -3 ELSE 0

\* if res < 0 { return -1; } 0
mmap_ret(res) == IF res < 0 THEN -1 ELSE 0
munmap_ret(res) == IF res < 0 THEN -1 ELSE 0

\* The guards of task::mmap and task::munmap: a section on the caller.
mmap_guards(t) == section(t)

\* What a syscall that panics leaves behind.
Panics(why) ==
  /\ halted' = why
  /\ UNCHANGED <<tcb_vars, sched_vars, pid_vars, mem_vars>>

\* sys_mmap from the conversion of _start + _len on: the call of task::mmap
\* and the result.  On success every page of the range gets a free frame and
\* the permission bits.
sys_mmap_call(t, start, len, port, end_vaddr) ==
  LET start_vpn == start_vpn_of(start)
      end_vpn == end_vpn_of(end_vaddr)
      res == mmap(page_table[t], FRAME_ALLOCATOR, start_vpn, end_vpn)
      vs == vpn_range(start_vpn, end_vpn)
  IN /\ IF res < 0
        THEN UNCHANGED mem_vars
        ELSE \E f \in frame_alloc(vs, FRAME_ALLOCATOR) :
               /\ page_table' =
                    [page_table EXCEPT
                       ![t] = [v \in VPNs |->
                                IF v \in vs THEN [ppn |-> f[v], flags |-> port]
                                ELSE @[v]]]
               /\ FRAME_ALLOCATOR' = FRAME_ALLOCATOR \ {f[v] : v \in vs}
     /\ trap_cx_x10' = syscall_return(trap_cx_x10, t, mmap_ret(res))
     /\ last' = MemCall("mmap", t, start, len, port, mmap_ret(res),
                        <<start_vpn, end_vpn>>)
     /\ guards' = mmap_guards(t)
     /\ UNCHANGED <<task_status, pid, parent, children, exit_code, priority,
                    memory_set, sched_vars, pid_vars, halted>>

sys_mmap(start, len, port) ==
  /\ halted = "no"
  /\ \E t \in current :
       IF ~aligned(start) \/ port_invalid(port) \/ len_invalid(len)
       THEN /\ OnlyReturns(t, -1)
            /\ last' = MemCall("mmap", t, start, len, port, -1, << >>)
            /\ guards' = << >>
       ELSE \/ /\ overflows(start, len)
               /\ Panics("add_overflow")
               /\ last' = MemCall("mmap", t, start, len, port, 0, << >>)
               /\ guards' = << >>
            \/ sys_mmap_call(t, start, len, port, wrapping_add(start, len))

\* sys_munmap from the conversion of _start + _len on.  On success every page
\* of the range is unbound and its frame goes back to the allocator.
sys_munmap_call(t, start, len, end_vaddr) ==
  LET start_vpn == start_vpn_of(start)
      end_vpn == end_vpn_of(end_vaddr)
      res == munmap(page_table[t], start_vpn, end_vpn)
      vs == vpn_range(start_vpn, end_vpn)
  IN /\ IF res < 0
        THEN UNCHANGED mem_vars
        ELSE /\ page_table' =
                  [page_table EXCEPT
                     ![t] = [v \in VPNs |-> IF v \in vs THEN NoPTE ELSE @[v]]]
             /\ FRAME_ALLOCATOR' =
                  FRAME_ALLOCATOR \cup {page_table[t][v].ppn : v \in vs}
     /\ trap_cx_x10' = syscall_return(trap_cx_x10, t, munmap_ret(res))
     /\ last' = MemCall("munmap", t, start, len, 0, munmap_ret(res),
                        <<start_vpn, end_vpn>>)
     /\ guards' = mmap_guards(t)
     /\ UNCHANGED <<task_status, pid, parent, children, exit_code, priority,
                    memory_set, sched_vars, pid_vars, halted>>

sys_munmap(start, len) ==
  /\ halted = "no"
  /\ \E t \in current :
       IF ~aligned(start) \/ len_invalid(len)
       THEN /\ OnlyReturns(t, -1)
            /\ last' = MemCall("munmap", t, start, len, 0, -1, << >>)
            /\ guards' = << >>
       ELSE \/ /\ overflows(start, len)
               /\ Panics("add_overflow")
               /\ last' = MemCall("munmap", t, start, len, 0, 0, << >>)
               /\ guards' = << >>
            \/ sys_munmap_call(t, start, len, wrapping_add(start, len))

\* Paths that resolve to the root's own binary or to nothing.
RootPaths == {"initproc", "nosuch"}

\* The process lifecycle: every syscall that creates, ends or reaps a task,
\* with every exit code and every pid argument.
Next ==
  \/ run_tasks
  \/ \E code \in ExitCodes : sys_exit(code)
  \/ sys_yield
  \/ sys_fork
  \/ \E path \in RootPaths : sys_exec(path)
  \/ \E p \in PidArgs, ptr \in Ptrs : sys_waitpid(p, ptr)
  \/ \E path \in RootPaths : sys_spawn(path)

Spec == Init /\ [][Next]_vars

\* Loading binaries: exec and spawn with every path, among the lifecycle
\* syscalls with one exit code and waitpid for any child.
NextLoad ==
  \/ run_tasks
  \/ sys_exit(0)
  \/ sys_yield
  \/ sys_fork
  \/ \E path \in Paths : sys_exec(path)
  \/ \E ptr \in Ptrs : sys_waitpid(-1, ptr)
  \/ \E path \in Paths : sys_spawn(path)

SpecLoad == Init /\ [][NextLoad]_vars

\* Priorities: set_priority with every priority argument, among the lifecycle
\* syscalls with one exit code, one binary and waitpid for any child.
NextPrio ==
  \/ run_tasks
  \/ sys_exit(0)
  \/ sys_yield
  \/ sys_fork
  \/ \E ptr \in Ptrs : sys_waitpid(-1, ptr)
  \/ sys_spawn("initproc")
  \/ \E prio \in PrioArgs : sys_set_priority(prio)

SpecPrio == Init /\ [][NextPrio]_vars

\* Tasks made by fork only: the lifecycle without spawn.
NextFork ==
  \/ run_tasks
  \/ \E code \in ExitCodes : sys_exit(code)
  \/ sys_yield
  \/ sys_fork
  \/ \E path \in RootPaths : sys_exec(path)
  \/ \E p \in PidArgs, ptr \in Ptrs : sys_waitpid(p, ptr)

SpecFork == Init /\ [][NextFork]_vars

\* Reaping orphans: tasks fork, spawn, yield and exit, and wait for any child.
NextReap ==
  \/ run_tasks
  \/ sys_exit(0)
  \/ sys_yield
  \/ sys_fork
  \/ sys_spawn("initproc")
  \/ \E ptr \in Ptrs : sys_waitpid(-1, ptr)

SpecReap == Init /\ [][NextReap]_vars

\* One address space: the root task calls mmap and munmap with every
\* argument, and yields.
NextMem ==
  \/ run_tasks
  \/ sys_yield
  \/ \E start \in StartArgs, len \in LenArgs, port \in PortArgs :
       sys_mmap(start, len, port)
  \/ \E start \in StartArgs, len \in LenArgs : sys_munmap(start, len)

SpecMem == Init /\ [][NextMem]_vars

\* ------------------------------------------------------------------ claims
\* The step is syscall op of task t: t is on the processor and the step
\* leaves the record of op.
Step(op, t) == current = {t} /\ last'.op = op

\* Child c of the caller matches the pid argument q of waitpid: q is -1 or
\* c's pid.
Matches(q, c) == q = -1 \/ q = pid[c]

\* The places in t's children of the children matching q, and of the zombies
\* among them.
Matching(t, q) == {i \in 1 .. Len(children[t]) : Matches(q, children[t][i])}
MatchingZombies(t, q) ==
  {i \in Matching(t, q) : task_status[children[t][i]] = "Zombie"}

\* C1, fork: the child is a new TCB under the parent, with the pid fork returns.
C1_Fork(P) ==
  Step("fork", P) =>
    \E C \in Slots :
      /\ last'.child = {C}
      /\ task_status[C] = "None"
      /\ pid'[C] = last'.ret
      /\ parent'[C] = {P}
      /\ children'[P] = Append(children[P], C)

\* C1, exit: the child becomes a zombie with the code it passed, and stays
\* where it is in every children list.
C1_Exit(C) ==
  (Step("exit", C) /\ C # INITPROC) =>
    /\ task_status'[C] = "Zombie"
    /\ exit_code'[C] = last'.arg
    /\ pid'[C] = pid[C]
    /\ \A P \in Slots : Count(children'[P], C) = Count(children[P], C)

\* C1, in between: a zombie child stays a zombie child of P, with its pid
\* and exit code, until P exits or P's waitpid takes it.
C1_Keep(P, C) ==
  (/\ C \in Range(children[P])
   /\ is_zombie(C)
   /\ ~Step("exit", P)
   /\ ~(Step("waitpid", P) /\ last'.child = {C})) =>
    /\ C \in Range(children'[P])
    /\ task_status'[C] = "Zombie"
    /\ exit_code'[C] = exit_code[C]
    /\ pid'[C] = pid[C]

\* C1, waitpid(C.pid, out): returns C.pid, stores C's exit code at out, and
\* leaves P without a child of that pid, so that a second call returns -1.
C1_Wait(P, C) ==
  (/\ Step("waitpid", P)
   /\ C \in Range(children[P])
   /\ is_zombie(C)
   /\ last'.arg = pid[C]) =>
    \E q \in PidArgs :
      /\ q = pid[C]
      /\ last'.ret = q
      /\ memory_set'[P].mem[last'.ptr] = exit_code[C]
      /\ halted' = "no"
      /\ (Matching(P, q) = {})'

\* C1: for every parent P and exit code c, after P forks child C and C calls
\* exit(c), P's next waitpid(C.pid, out) returns C.pid and stores c at out,
\* and a second waitpid(C.pid, out) by P then returns -1.
C1_ForkExitWaitpid ==
  [][/\ \A P \in current :
          /\ C1_Fork(P)
          /\ C1_Exit(P)
          /\ \A C \in Range(children[P]) : C1_Wait(P, C)
     /\ \A P \in Slots : \A C \in Range(children[P]) : C1_Keep(P, C)]_vars

\* A waitpid for one pid has just returned that pid and stored exit code 1.
C1_Witness ==
  /\ last.op = "waitpid"
  /\ last.arg >= 0
  /\ last.ret = last.arg
  /\ \E P \in last.task : memory_set[P].mem[last.ptr] = 1

\* C2: waitpid(pid, out) returns -1 whenever the caller's children hold no
\* entry matching pid, and then changes neither a children list nor memory.
C2_NoSuchChild ==
  [][\A t \in current :
       (Step("waitpid", t) /\ Matching(t, last'.arg) = {}) =>
         /\ last'.ret = -1
         /\ trap_cx_x10'[t] = -1
         /\ children' = children
         /\ memory_set' = memory_set]_vars

\* A waitpid for a pid has returned -1 to a task that has children.
C2_Witness ==
  /\ last.op = "waitpid"
  /\ last.ret = -1
  /\ last.arg >= 0
  /\ \E t \in last.task : children[t] # << >>

\* C3: waitpid(pid, out) returns -2 exactly when some child of the caller
\* matches pid and no matching child is a zombie; the caller stays on the
\* processor, no child is removed and memory is not written.
C3_StillRunning ==
  [][\A t \in current :
       Step("waitpid", t) =>
         /\ (last'.ret = -2) <=>
              (Matching(t, last'.arg) # {} /\ MatchingZombies(t, last'.arg) = {})
         /\ (last'.ret = -2) =>
              /\ trap_cx_x10'[t] = -2
              /\ current' = {t}
              /\ task_status' = task_status
              /\ ready_queue' = ready_queue
              /\ children' = children
              /\ memory_set' = memory_set]_vars

\* A waitpid has returned -2.
C3_Witness ==
  /\ last.op = "waitpid"
  /\ last.ret = -2
  /\ \E t \in last.task : children[t] # << >> /\ current = {t}

C5_ZombieHeldOnce ==
  /\ halted # "assert_strong_count"
  /\ \A z \in Slots :
       is_zombie(z) => strong_count(z, children, ready_queue, current) = 1

\* A waitpid has removed a zombie child and the kernel runs on.
C5_Witness ==
  /\ last.op = "waitpid"
  /\ last.ret >= 0
  /\ last.child # {}
  /\ halted = "no"

\* The root task calls waitpid(-1, _).
RootWaitsAny == current = {INITPROC} /\ \E ptr \in Ptrs : sys_waitpid(-1, ptr)

\* C6, exit: the children of a task that exits are appended to the root's
\* children, each with the root as its parent, and leave the task's own list.
C6_Reparent(t) ==
  (Step("exit", t) /\ t # INITPROC) =>
    /\ children'[INITPROC] = children[INITPROC] \o children[t]
    /\ children'[t] = << >>
    /\ \A c \in Range(children[t]) : parent'[c] = {INITPROC}

\* C6: when a task with children exits, every child becomes a child of the
\* root task; and if the root keeps calling waitpid(-1, _), every zombie
\* among the root's children is eventually reaped.
C6_OrphansReaped ==
  /\ [][\A t \in current : C6_Reparent(t)]_vars
  /\ ([]<><<RootWaitsAny>>_vars) =>
       \A c \in Slots :
         (is_zombie(c) /\ c \in Range(children[INITPROC]))
           ~> (task_status[c] = "None")

\* A task with a child has exited, and its child is now the root's.
C6_Witness ==
  /\ last.op = "exit"
  /\ last.child # {}
  /\ halted = "no"
  /\ \A c \in last.child :
       parent[c] = {INITPROC} /\ c \in Range(children[INITPROC])

\* C7, the fork step: the parent gets the pid of the new child, which is not
\* 0 and not its own; the child is appended to the ready queue, once, with 0
\* in its saved a0.
C7_Fork(t) ==
  Step("fork", t) =>
    \E C \in last'.child :
      /\ task_status[C] = "None"
      /\ task_status'[C] = "Ready"
      /\ last'.ret = pid'[C]
      /\ last'.ret # 0
      /\ last'.ret # pid[t]
      /\ trap_cx_x10'[t] = last'.ret
      /\ trap_cx_x10'[C] = 0
      /\ ready_queue' = Append(ready_queue, C)
      /\ Count(ready_queue', C) = 1

\* C7, until the child runs: a task in the ready queue keeps its saved a0
\* and leaves the queue only for the processor.
C7_Queued(C) ==
  /\ trap_cx_x10'[C] = trap_cx_x10[C]
  /\ C \in Range(ready_queue') \/ current' = {C}

\* C7: fork returns the child's pid (not 0, not the caller's) to the parent,
\* sets the child's saved a0 to 0 and puts the child in the ready queue
\* exactly once, so the child finds 0 as fork's result when it first runs.
C7_ForkReturns ==
  /\ [][/\ \A t \in current : C7_Fork(t)
        /\ \A C \in Range(ready_queue) : C7_Queued(C)]_vars
  /\ [](\A C \in Slots :
          Count(ready_queue, C) + (IF C \in current THEN 1 ELSE 0) <= 1)

\* A task whose a0 was not 0 has forked: its child waits in the ready queue.
C7_Witness ==
  /\ last.op = "fork"
  /\ last.ret = 2
  /\ \E t \in last.task, C \in last.child :
       /\ pid[t] = 1
       /\ pid[C] = 2
       /\ trap_cx_x10[C] = 0
       /\ trap_cx_x10[t] = 2
       /\ Count(ready_queue, C) = 1

\* C8: spawn(path) with a binary that resolves makes one new task, loaded
\* from that binary, whose parent is the caller, appends it to the caller's
\* children, puts it in the ready queue once and returns its pid, and leaves
\* the caller's address space alone; with a path that does not resolve it
\* returns -1 and makes no task, takes no pid, and changes neither a
\* children list nor the ready queue.
C8_Spawn ==
  [][\A t \in current :
       Step("spawn", t) =>
         IF last'.path \in Apps
         THEN \E C \in last'.child :
                /\ task_status[C] = "None"
                /\ task_status' = [task_status EXCEPT ![C] = "Ready"]
                /\ memory_set'[C] = [image |-> last'.path, mem |-> ZeroMem]
                /\ parent'[C] = {t}
                /\ children' = [children EXCEPT ![t] = Append(children[t], C)]
                /\ children'[C] = << >>
                /\ ready_queue' = Append(ready_queue, C)
                /\ Count(ready_queue', C) = 1
                /\ last'.ret = pid'[C]
                /\ \A u \in Live : pid[u] # pid'[C]
                /\ memory_set'[t] = memory_set[t]
         ELSE /\ last'.ret = -1
              /\ last'.child = {}
              /\ task_status' = task_status
              /\ pid' = pid
              /\ pid_current' = pid_current
              /\ pid_recycled' = pid_recycled
              /\ children' = children
              /\ ready_queue' = ready_queue
              /\ memory_set' = memory_set]_vars

\* A task running one binary has spawned a child from another.
C8_Witness ==
  /\ last.op = "spawn"
  /\ last.path = "user_shell"
  /\ last.ret > 0
  /\ \E t \in last.task, C \in last.child :
       /\ memory_set[t].image = "initproc"
       /\ memory_set[C].image = "user_shell"
       /\ parent[C] = {t}

\* C9: exec(path) with a binary that resolves returns 0 and gives the caller
\* the address space and context of that binary, keeping pid, parent and
\* children; with a path that does not resolve it returns -1 and leaves
\* address space, context (but for the result in a0), pid, parent and
\* children as they were.
C9_Exec ==
  [][\A t \in current :
       Step("exec", t) =>
         /\ pid' = pid
         /\ parent' = parent
         /\ children' = children
         /\ task_status' = task_status
         /\ IF last'.path \in Apps
            THEN /\ last'.ret = 0
                 /\ memory_set' = [memory_set EXCEPT
                      ![t] = [image |-> last'.path, mem |-> ZeroMem]]
                 /\ trap_cx_x10' = [trap_cx_x10 EXCEPT ![t] = 0]
            ELSE /\ last'.ret = -1
                 /\ memory_set' = memory_set
                 /\ trap_cx_x10' = [trap_cx_x10 EXCEPT ![t] = -1]]_vars

\* A task with a parent and a child has exec'ed another binary.
C9_Witness ==
  /\ last.op = "exec"
  /\ last.ret = 0
  /\ \E t \in last.task :
       /\ memory_set[t].image = "user_shell"
       /\ children[t] # << >>
       /\ parent[t] # {}

\* C10: set_priority(p) with p < 2 returns -1 and leaves every priority as
\* it was; with p >= 2 it returns p and the caller's priority is p, no other
\* task's priority changing; every task's priority is at least 2 in every
\* reachable state.
C10_SetPriority ==
  /\ [][\A t \in current :
          Step("set_priority", t) =>
            IF last'.arg < 2
            THEN last'.ret = -1 /\ priority' = priority
            ELSE /\ last'.ret = last'.arg
                 /\ priority' = [priority EXCEPT ![t] = last'.arg]]_vars
  /\ [](\A t \in Slots : priority[t] >= 2)

\* A task has set its priority to 2 while another task keeps the default.
C10_Witness ==
  /\ last.op = "set_priority"
  /\ last.ret = 2
  /\ \E t \in last.task, u \in Live \ last.task :
       priority[t] = 2 /\ priority[u] = DefaultPriority

\* The arguments of the mmap or munmap call that a step records.
StartOf(l) == l.arg
LenOf(l) == l.len
PortOf(l) == l.port

\* port has a bit outside bits 0..2, or none of bits 0..2.
BadPort(port) == port \notin 1 .. 7

\* The kernel state a refused mmap or munmap must leave alone: every address
\* space, the free frames, and the guards (the task module, which takes the
\* caller's guard, is not entered).
C11_Refused(t) ==
  /\ last'.ret = -1
  /\ trap_cx_x10'[t] = -1
  /\ page_table' = page_table
  /\ FRAME_ALLOCATOR' = FRAME_ALLOCATOR
  /\ last'.vpns = << >>
  /\ guards' = << >>
  /\ halted' = "no"

\* C11: mmap(start, len, port) returns -1, without calling the mapping
\* operation or the frame allocator and without changing an address space,
\* whenever start is not page-aligned, or port has a bit outside bits 0..2,
\* or port has none of bits 0..2, or len is 0; munmap(start, len) does the
\* same for a start that is not page-aligned and for len 0.
C11_InvalidArguments ==
  [][\A t \in current :
       /\ (/\ Step("mmap", t)
           /\ \/ StartOf(last') % PAGE_SIZE # 0
              \/ BadPort(PortOf(last'))
              \/ LenOf(last') = 0) => C11_Refused(t)
       /\ (/\ Step("munmap", t)
           /\ \/ StartOf(last') % PAGE_SIZE # 0
              \/ LenOf(last') = 0) => C11_Refused(t)]_vars

\* An mmap of one aligned page with port 9 (R and a bit above X) was refused
\* by a task that has a page mapped.
C11_Witness ==
  /\ last.op = "mmap"
  /\ last.ret = -1
  /\ last.port = 9
  /\ last.arg % PAGE_SIZE = 0
  /\ last.len = PAGE_SIZE
  /\ \E t \in last.task : mapped(page_table[t]) # {}

\* The pages that hold a byte of [start, start + len); the pages behind
\* MaxVpn are pages no address space has.
RangePages(start, len) ==
  {v \in 0 .. ((start + len) \div PAGE_SIZE) :
     v * PAGE_SIZE < start + len /\ start < (v + 1) * PAGE_SIZE}

\* C12: mmap over a range in which at least one page is already mapped in
\* the caller's address space returns -1 and leaves every mapping (pages,
\* frames, permissions) of every address space and the set of free frames
\* as they were, wherever in the range the mapped page lies.
C12_OverlapRefused ==
  [][\A t \in current :
       (/\ Step("mmap", t)
        /\ RangePages(StartOf(last'), LenOf(last')) \cap mapped(page_table[t]) # {})
         => /\ last'.ret = -1
            /\ trap_cx_x10'[t] = -1
            /\ page_table' = page_table
            /\ FRAME_ALLOCATOR' = FRAME_ALLOCATOR
            /\ halted' = "no"]_vars

\* mmap(start, len, port) is called with valid arguments on a range of the
\* address space that is unmapped, the pages ms being mapped, with the frames
\* free to back it.
C13_Mappable(start, len, port, ms, free) ==
  /\ start % PAGE_SIZE = 0
  /\ len > 0
  /\ port \in 1 .. 7
  /\ RangePages(start, len) \subseteq VPNs
  /\ RangePages(start, len) \cap ms = {}
  /\ Cardinality(RangePages(start, len)) <= Cardinality(free)

\* C13: for every page-aligned start, len > 0 and port in 1..7 with the range
\* unmapped and enough free frames, mmap(start, len, port) returns 0, and a
\* munmap(start, len) that follows it at once returns 0 too and leaves the
\* number of free frames and the set of mapped pages as they were before
\* the mmap.
C13_MapThenUnmap ==
  [][\A t \in current :
       /\ (/\ Step("mmap", t)
           /\ C13_Mappable(StartOf(last'), LenOf(last'), PortOf(last'),
                           mapped(page_table[t]), FRAME_ALLOCATOR))
            => (last'.ret = 0 /\ trap_cx_x10'[t] = 0 /\ halted' = "no")
       /\ (/\ Step("munmap", t)
           /\ last.op = "mmap"
           /\ last.task = {t}
           /\ StartOf(last') = StartOf(last)
           /\ LenOf(last') = LenOf(last)
           /\ C13_Mappable(StartOf(last), LenOf(last), PortOf(last),
                           last.before[1], last.before[2]))
            => /\ last'.ret = 0
               /\ trap_cx_x10'[t] = 0
               /\ halted' = "no"
               /\ mapped(page_table'[t]) = last.before[1]
               /\ Cardinality(FRAME_ALLOCATOR') = Cardinality(last.before[2])]_vars

\* C14: munmap(start, len) with a page-aligned start and len > 0 is all or
\* nothing: if a page of the range is not mapped in the caller's address
\* space it returns -1 and unmaps no page, also when earlier pages of the
\* range are mapped; otherwise it returns 0, exactly the pages of the range
\* are unmapped, their frames are free again, and the pages outside the
\* range and every other address space are as before.
C14_UnmapAllOrNothing ==
  [][\A t \in current :
       (/\ Step("munmap", t)
        /\ StartOf(last') % PAGE_SIZE = 0
        /\ LenOf(last') > 0) =>
         LET R == RangePages(StartOf(last'), LenOf(last'))
             ms == mapped(page_table[t])
         IN /\ halted' = "no"
            /\ ~(R \subseteq ms) =>
                 /\ last'.ret = -1
                 /\ trap_cx_x10'[t] = -1
                 /\ page_table' = page_table
                 /\ FRAME_ALLOCATOR' = FRAME_ALLOCATOR
            /\ (R \subseteq ms) =>
                 /\ last'.ret = 0
                 /\ trap_cx_x10'[t] = 0
                 /\ page_table' =
                      [page_table EXCEPT
                         ![t] = [v \in VPNs |-> IF v \in R THEN NoPTE ELSE @[v]]]
                 /\ FRAME_ALLOCATOR' =
                      FRAME_ALLOCATOR \cup {page_table[t][v].ppn : v \in R}]_vars

\* The tasks whose guard is held just before event i of the guard log g.
Held(g, i) ==
  {x \in Slots :
     Cardinality({k \in 1 .. (i - 1) : g[k] = acquire(x)})
       > Cardinality({k \in 1 .. (i - 1) : g[k] = release(x)})}

\* The events of g that take the guard of a task other than the caller t.
ChildAcquires(g, t) ==
  {i \in 1 .. Len(g) : g[i][1] = "acquire" /\ g[i][2] # t}

\* From its acquisition at event i on, the guard of g[i][2] is released
\* before the guard of t is touched (acquired or released).
ReleasedBefore(g, i, t) ==
  \A j \in (i + 1) .. Len(g) :
    g[j][2] = t /\ g[j][1] \in {"acquire", "release"} =>
      \E k \in (i + 1) .. (j - 1) : g[k] = release(g[i][2])

C16_NoGuardAcrossSwitch ==
  /\ \A i \in 1 .. Len(guards) :
       /\ guards[i][1] \in {"add_task", "switch"} => Held(guards, i) = {}
       /\ guards[i][1] = "acquire" => guards[i][2] \notin Held(guards, i)
  /\ last.op \in {"yield", "exit"} /\ halted = "no" =>
       \E i \in 1 .. Len(guards) : guards[i][1] = "switch"
  /\ last.op \in {"fork", "spawn"} /\ last.child # {} =>
       \E i \in 1 .. Len(guards) :
         /\ guards[i][1] = "add_task"
         /\ guards[i][2] \in last.child
         /\ \E k \in 1 .. (i - 1) : guards[k] = release(guards[i][2])
         /\ \A t \in last.task : \E k \in 1 .. (i - 1) : guards[k] = release(t)

\* A fork has queued its child: both guards were taken and dropped before.
C16_Witness ==
  /\ last.op = "fork"
  /\ last.child # {}
  /\ \E c \in last.child :
       guards[Len(guards)] = to_ready_queue(c) /\ acquire(c) \in Range(guards)

\* The steps of the status of one TCB: created Ready, Ready to Running,
\* Running back to Ready or on to Zombie, and a Zombie until it is reaped.
C17_Transitions ==
  {<<"None", "Ready">>, <<"Ready", "Running">>, <<"Running", "Ready">>,
   <<"Running", "Zombie">>, <<"Zombie", "None">>}

NotReaped == {c \in Slots : task_status[c] \in {"Ready", "Running", "Zombie"}}

\* C18: no two tasks that have not been reaped have the same pid: the pid
\* that fork or spawn hands out differs from the pid of every task there is,
\* and the pid of a zombie is not handed out again before waitpid has
\* removed the zombie.
C18_PidUnique ==
  /\ [](\A a, b \in NotReaped : pid[a] = pid[b] => a = b)
  /\ [](\A a \in NotReaped :
          pid[a] \notin Range(pid_recycled) /\ pid[a] < pid_current)
  /\ [][\A t \in current :
          (Step("fork", t) \/ Step("spawn", t)) =>
            \A c \in last'.child :
              /\ pid'[c] = last'.ret
              /\ \A a \in NotReaped : pid[a] # last'.ret]_vars

\* A fork or spawn has handed out a pid that a reaped task had before, while
\* a zombie with another pid waits to be reaped.
C18_Witness ==
  /\ last.op \in {"fork", "spawn"}
  /\ last.child # {}
  /\ last.ret < pid_current - 1
  /\ \E z \in Slots : is_zombie(z) /\ pid[z] # last.ret

\* The places of task c in the children list of task p.
PlacesIn(p, c) == {i \in 1 .. Len(children[p]) : children[p][i] = c}

\* C19: a children list holds no two entries with the same pid, and every
\* task that is not reaped and is not the root is in the children list of
\* exactly one task, the one its parent reference names, once; a child
\* leaves a children list only when waitpid reaps it or when its parent
\* exits and it moves to the root's list.
C19_ChildrenLists ==
  /\ [](\A p \in Slots :
          /\ \A i, j \in 1 .. Len(children[p]) :
               pid[children[p][i]] = pid[children[p][j]] => i = j
          /\ Range(children[p]) \subseteq NotReaped
          /\ p \notin NotReaped => children[p] = << >>)
  /\ [](\A c \in NotReaped \ {INITPROC} :
          \E p \in NotReaped :
            /\ parent[c] = {p}
            /\ Cardinality(PlacesIn(p, c)) = 1
            /\ \A q \in Slots \ {p} : PlacesIn(q, c) = {})
  /\ [](\A q \in Slots : PlacesIn(q, INITPROC) = {})
  /\ [][\A p \in Slots : \A c \in Range(children[p]) :
          c \notin Range(children'[p]) =>
            \/ /\ Step("waitpid", p)
               /\ last'.child = {c}
               /\ task_status[c] = "Zombie"
            \/ /\ Step("exit", p)
               /\ p # INITPROC
               /\ c \in Range(children'[INITPROC])
               /\ parent'[c] = {INITPROC}]_vars

\* A waitpid has reaped one child of a caller that has another child, which
\* is still in the caller's list.
C19_Witness ==
  /\ last.op = "waitpid"
  /\ last.ret >= 0
  /\ halted = "no"
  /\ \E t \in last.task : Len(children[t]) >= 1

\* The call a step records hands on a page range: mmap with a page-aligned
\* start, len > 0 and a valid port, munmap with a page-aligned start and
\* len > 0.
C20_HandsOn(l) ==
  /\ l.op \in {"mmap", "munmap"}
  /\ StartOf(l) % PAGE_SIZE = 0
  /\ LenOf(l) > 0
  /\ l.op = "mmap" => ~BadPort(PortOf(l))

\* C20: for a page-aligned start and len > 0 the page range that sys_mmap
\* and sys_munmap hand on is [start / PAGE_SIZE, ceil((start + len) /
\* PAGE_SIZE)): it is not empty and holds exactly the pages with a byte of
\* [start, start + len), a len that is no multiple of the page size being
\* rounded up; so mmap(start, len) and munmap(start, len) address the same
\* pages.
C20_PageRange ==
  [][\A t \in current :
       ((Step("mmap", t) \/ Step("munmap", t)) /\ C20_HandsOn(last')) =>
         LET start == StartOf(last')
             len == LenOf(last')
         IN /\ halted' = "no"
            /\ last'.vpns = <<start \div PAGE_SIZE,
                              (start + len + PAGE_SIZE - 1) \div PAGE_SIZE>>
            /\ last'.vpns[1] < last'.vpns[2]
            /\ {v \in 0 .. last'.vpns[2] :
                  last'.vpns[1] <= v /\ v < last'.vpns[2]} = RangePages(start, len)
            /\ (/\ last'.op = "munmap"
                /\ C20_HandsOn(last)
                /\ last.op = "mmap"
                /\ StartOf(last) = start
                /\ LenOf(last) = len) => last'.vpns = last.vpns]_vars

=============================================================================
